---- MODULE Spec2Model ----
(***************************************************************************)
(* javelin: a per-project quick file list (src/src/main.rs).               *)
(*                                                                         *)
(* The model covers the persistent store (the javelin.db file), the       *)
(* interactive session (App: files, list_state, db, project_key, running), *)
(* the direct invocation path (subcommands 1..9) and the clean command.    *)
(*                                                                         *)
(* Conventions                                                             *)
(*   - Vec<String> is a sequence; Rust indices are 0-based, so the entry   *)
(*     at Rust index i is files[i + 1].                                    *)
(*   - Option<T> is a sequence of length at most one: None == <<>>,        *)
(*     Some(x) == <<x>>.                                                   *)
(*   - A directory is the sequence of the characters of its absolute path. *)
(*   - The store file holds a map from project key to the JSON text of the *)
(*     list; a PickleDb handle holds a copy of the whole map in memory.    *)
(*                                                                         *)
(* Environment                                                             *)
(*   - The data directory and the working directory can be determined, the *)
(*     store file parses, and reads, writes and removals of the store file *)
(*     succeed, except that SpecFail lets a write of save_files fail.      *)
(*     Starting the editor process may fail.                               *)
(*   - ZED_FILE is read from the process environment, so it is fixed for   *)
(*     the life of a session.                                              *)
(*   - terminal.draw (App::render) is not modelled: it reads files and     *)
(*     writes no modelled state while the cursor is a valid index.         *)
(*                                                                         *)
(* History variables record what the claims refer to and the program does  *)
(* not keep; the variable history selects the one a behaviour records.     *)
(*                                                                         *)
(* Specifications                                                          *)
(*   - Spec, SpecReopen, SpecOffers, SpecTwice: sequential invocations,    *)
(*     one process at a time, differing in the history they record.        *)
(*   - SpecFail: sequential invocations in which a store write may fail.   *)
(*   - SpecRace: two sessions of one project running at the same time.     *)
(***************************************************************************)
EXTENDS Integers, Sequences, FiniteSets, TLC

\* ------------------------------------------------------------------ bounds

\* Longest record of offered paths kept by the history variable offered.
MaxOffered == 3

\* ------------------------------------------------------------- input sets

\* Values of the ZED_FILE environment variable (file entries are opaque strings).
Paths == {"/a", "/b", "/c"}

\* Working directories: "/p/q" and "/p_q" normalise to the same project key.
Dirs == { <<"/", "p", "/", "q">>, <<"/", "p", "_", "q">>, <<"/", "r">> }

\* Processes that may hold an interactive session.
Sessions == {1, 2}

\* Under sequential invocations one process runs at a time.
Foreground == {1}

\* ---------------------------------------------------------------- Option

None == <<>>

Some(x) == <<x>>

IsSome(o) == Len(o) = 1

Unwrap(o) == o[1]

\* ----------------------------------------------------- project identity

\* current_dir.to_string_lossy().replace('/', "_") with the "project_" prefix.
ProjectKey(dir) ==
    <<"project_">> \o [i \in 1..Len(dir) |-> IF dir[i] = "/" THEN "_" ELSE dir[i]]

Keys == {ProjectKey(d) : d \in Dirs}

\* ------------------------------------------------------- serialisation

\* serde_json text of a Vec<String>: a JSON array of the strings.
Serialize(list) == <<"[">> \o list \o <<"]">>

\* serde_json parse as Vec<String>; None when the text is no JSON array.
Deserialize(text) ==
    IF Len(text) >= 2 /\ text[1] = "[" /\ text[Len(text)] = "]"
    THEN Some(SubSeq(text, 2, Len(text) - 1))
    ELSE None

\* Option::unwrap_or_default for Vec<String>.
UnwrapOrDefault(o) == IF IsSome(o) THEN Unwrap(o) ELSE <<>>

\* ------------------------------------------------------------- PickleDb

EmptyMap == [k \in {} |-> <<>>]

\* PickleDb::exists
DbExists(map, key) == key \in DOMAIN map

\* PickleDb::get::<Vec<String>>
DbGet(map, key) == IF DbExists(map, key) THEN Deserialize(map[key]) ELSE None

\* PickleDb::set removing the key instead of storing an empty list.
DbSetDroppingEmpty(map, key, list) ==
    IF list = <<>>
    THEN [k \in DOMAIN map \ {key} |-> map[k]]
    ELSE [k \in DOMAIN map \cup {key} |-> IF k = key THEN Serialize(list) ELSE map[k]]

\* PickleDb::set: the in-memory map after inserting the serialised value.
DbSet(map, key, list) ==
    [k \in DOMAIN map \cup {key} |-> IF k = key THEN Serialize(list) ELSE map[k]]

\* -------------------------------------------------------- list controller

\* Vec::contains
Contains(fs, x) == \E i \in 1..Len(fs) : fs[i] = x

\* Vec::remove(i), i 0-based
Remove(fs, i) == SubSeq(fs, 1, i) \o SubSeq(fs, i + 2, Len(fs))

\* slice::swap(i, j), i and j 0-based
Swap(fs, i, j) == [fs EXCEPT ![i + 1] = fs[j + 1], ![j + 1] = fs[i + 1]]

\* What a handler leaves behind: the list, the cursor, whether save_files ran
\* and whether the handler panicked.
Outcome(fs, sel, saved, panicked) ==
    [files |-> fs, selected |-> sel, save |-> saved, panic |-> panicked]

\* App::load_files on a fresh App (files empty, nothing selected).
load_files(map, key) ==
    IF DbExists(map, key)
    THEN LET fs == UnwrapOrDefault(DbGet(map, key))
         IN  [files |-> fs, selected |-> IF fs # <<>> THEN Some(0) ELSE None]
    ELSE [files |-> <<>>, selected |-> None]

\* next stopping at the last index instead of wrapping to 0.
next_clamping(fs, sel) ==
    IF fs = <<>> THEN Outcome(fs, sel, FALSE, FALSE)
    ELSE LET i == IF IsSome(sel)
                  THEN (IF Unwrap(sel) >= Len(fs) - 1 THEN Len(fs) - 1 ELSE Unwrap(sel) + 1)
                  ELSE 0
         IN  Outcome(fs, Some(i), FALSE, FALSE)

\* App::next
next(fs, sel) ==
    IF fs = <<>> THEN Outcome(fs, sel, FALSE, FALSE)
    ELSE LET i == IF IsSome(sel)
                  THEN (IF Unwrap(sel) >= Len(fs) - 1 THEN 0 ELSE Unwrap(sel) + 1)
                  ELSE 0
         IN  Outcome(fs, Some(i), FALSE, FALSE)

\* App::previous
previous(fs, sel) ==
    IF fs = <<>> THEN Outcome(fs, sel, FALSE, FALSE)
    ELSE LET i == IF IsSome(sel)
                  THEN (IF Unwrap(sel) = 0 THEN Len(fs) - 1 ELSE Unwrap(sel) - 1)
                  ELSE 0
         IN  Outcome(fs, Some(i), FALSE, FALSE)

\* add_current_file without the membership check.
add_current_file_unchecked(fs, sel, zed) ==
    IF IsSome(zed)
    THEN LET pushed == Append(fs, Unwrap(zed))
         IN  Outcome(pushed, IF Len(pushed) = 1 THEN Some(0) ELSE sel, TRUE, FALSE)
    ELSE Outcome(fs, sel, FALSE, FALSE)

\* add_current_file comparing the path with the selected entry only.
add_current_file_checking_selected(fs, sel, zed) ==
    IF IsSome(zed) /\ ~(IsSome(sel) /\ Unwrap(sel) < Len(fs) /\ fs[Unwrap(sel) + 1] = Unwrap(zed))
    THEN LET pushed == Append(fs, Unwrap(zed))
         IN  Outcome(pushed, IF Len(pushed) = 1 THEN Some(0) ELSE sel, TRUE, FALSE)
    ELSE Outcome(fs, sel, FALSE, FALSE)

\* add_current_file moving the cursor to a path that is already in the list.
add_current_file_reselecting(fs, sel, zed) ==
    IF IsSome(zed)
    THEN IF Contains(fs, Unwrap(zed))
         THEN Outcome(fs, Some((CHOOSE i \in 1..Len(fs) : fs[i] = Unwrap(zed)) - 1),
                      FALSE, FALSE)
         ELSE LET pushed == Append(fs, Unwrap(zed))
              IN  Outcome(pushed, IF Len(pushed) = 1 THEN Some(0) ELSE sel, TRUE, FALSE)
    ELSE Outcome(fs, sel, FALSE, FALSE)

\* App::add_current_file; zed is env::var("ZED_FILE") as an Option.
add_current_file(fs, sel, zed) ==
    IF IsSome(zed) /\ ~Contains(fs, Unwrap(zed))
    THEN LET pushed == Append(fs, Unwrap(zed))
         IN  Outcome(pushed, IF Len(pushed) = 1 THEN Some(0) ELSE sel, TRUE, FALSE)
    ELSE Outcome(fs, sel, FALSE, FALSE)

\* delete_selected_file without the call of save_files.
delete_selected_file_unsaved(fs, sel) ==
    IF IsSome(sel) /\ Unwrap(sel) < Len(fs)
    THEN LET removed == Remove(fs, Unwrap(sel))
         IN  Outcome(removed,
                     IF removed = <<>> THEN None
                     ELSE IF Unwrap(sel) >= Len(removed) THEN Some(Len(removed) - 1)
                     ELSE sel,
                     FALSE, FALSE)
    ELSE Outcome(fs, sel, FALSE, FALSE)

\* delete_selected_file moving the cursor to the entry before the removed one.
delete_selected_file_retreating(fs, sel) ==
    IF IsSome(sel) /\ Unwrap(sel) < Len(fs)
    THEN LET removed == Remove(fs, Unwrap(sel))
         IN  Outcome(removed,
                     IF removed = <<>> THEN None
                     ELSE IF Unwrap(sel) = 0 THEN Some(0)
                     ELSE Some(Unwrap(sel) - 1),
                     TRUE, FALSE)
    ELSE Outcome(fs, sel, FALSE, FALSE)

\* delete_selected_file without the re-clamping of the cursor after the removal.
delete_selected_file_unclamped(fs, sel) ==
    IF IsSome(sel) /\ Unwrap(sel) < Len(fs)
    THEN Outcome(Remove(fs, Unwrap(sel)), sel, TRUE, FALSE)
    ELSE Outcome(fs, sel, FALSE, FALSE)

\* App::delete_selected_file
delete_selected_file(fs, sel) ==
    IF IsSome(sel) /\ Unwrap(sel) < Len(fs)
    THEN LET removed == Remove(fs, Unwrap(sel))
         IN  Outcome(removed,
                     IF removed = <<>> THEN None
                     ELSE IF Unwrap(sel) >= Len(removed) THEN Some(Len(removed) - 1)
                     ELSE sel,
                     TRUE, FALSE)
    ELSE Outcome(fs, sel, FALSE, FALSE)

\* App::move_down.  files.len() - 1 is a usize subtraction: on an empty list
\* it overflows (debug build) or wraps and sends swap out of bounds (release
\* build); either way the handler panics.
move_down(fs, sel) ==
    IF ~IsSome(sel) THEN Outcome(fs, sel, FALSE, FALSE)
    ELSE IF fs = <<>> THEN Outcome(fs, sel, FALSE, TRUE)
    ELSE IF Unwrap(sel) < Len(fs) - 1
    THEN Outcome(Swap(fs, Unwrap(sel), Unwrap(sel) + 1), Some(Unwrap(sel) + 1), TRUE, FALSE)
    ELSE Outcome(fs, sel, FALSE, FALSE)

\* move_up leaving the cursor on the old index.
move_up_cursor_stays(fs, sel) ==
    IF IsSome(sel) /\ Unwrap(sel) > 0 /\ Unwrap(sel) < Len(fs)
    THEN Outcome(Swap(fs, Unwrap(sel), Unwrap(sel) - 1), sel, TRUE, FALSE)
    ELSE Outcome(fs, sel, FALSE, FALSE)

\* move_up wrapping around at index 0, as next and previous do.
move_up_wrapping(fs, sel) ==
    IF IsSome(sel) /\ Unwrap(sel) < Len(fs)
    THEN LET to == IF Unwrap(sel) = 0 THEN Len(fs) - 1 ELSE Unwrap(sel) - 1
         IN  Outcome(Swap(fs, Unwrap(sel), to), Some(to), TRUE, FALSE)
    ELSE Outcome(fs, sel, FALSE, FALSE)

\* move_up without the call of save_files.
move_up_unsaved(fs, sel) ==
    IF IsSome(sel) /\ Unwrap(sel) > 0 /\ Unwrap(sel) < Len(fs)
    THEN Outcome(Swap(fs, Unwrap(sel), Unwrap(sel) - 1), Some(Unwrap(sel) - 1), FALSE, FALSE)
    ELSE Outcome(fs, sel, FALSE, FALSE)

\* App::move_up.  swap(selected, selected - 1) panics when selected is past the end.
move_up(fs, sel) ==
    IF IsSome(sel) /\ Unwrap(sel) > 0
    THEN IF Unwrap(sel) < Len(fs)
         THEN Outcome(Swap(fs, Unwrap(sel), Unwrap(sel) - 1), Some(Unwrap(sel) - 1), TRUE, FALSE)
         ELSE Outcome(fs, sel, FALSE, TRUE)
    ELSE Outcome(fs, sel, FALSE, FALSE)

\* App::open_file: the path handed to the editor, if any.
open_file(fs, index) == IF index < Len(fs) THEN Some(fs[index + 1]) ELSE None

\* ----------------------------------------------------------- input events

\* '0'..'9' in order, so that the digit at position n + 1 has value n.
AsciiDigits == <<"0", "1", "2", "3", "4", "5", "6", "7", "8", "9">>

\* A character that is numeric without being an ASCII digit (ARABIC-INDIC DIGIT THREE).
OtherNumeric == "U+0663"

KeyEvent(kind, mods, code, ch) ==
    [type |-> "Key", kind |-> kind, mods |-> mods, code |-> code, ch |-> ch]

Press(mods, ch) == KeyEvent("Press", mods, "Char", ch)

\* The key presses delivered to the session: every key of the dispatch table,
\* and near misses of each row.
PressEvents ==
    { KeyEvent("Press", "NONE", "Esc", ""), Press("NONE", "q"), Press("SHIFT", "q"),
      Press("CONTROL", "c"), Press("CONTROL", "C"), Press("NONE", "c"),
      Press("NONE", "j"), Press("CONTROL", "j"), Press("NONE", "k"),
      Press("NONE", "a"), Press("NONE", "d"),
      Press("SHIFT", "J"), Press("NONE", "J"), Press("SHIFT", "K"), Press("CONTROL", "K"),
      KeyEvent("Press", "NONE", "Enter", ""), KeyEvent("Press", "NONE", "Tab", ""),
      Press("NONE", "x"), Press("NONE", OtherNumeric) }
        \cup {Press("NONE", AsciiDigits[n]) : n \in 1..Len(AsciiDigits)}

\* Events that are no key press.
OtherEvents ==
    { KeyEvent("Release", "NONE", "Char", "q"),
      KeyEvent("Repeat", "NONE", "Char", "d"),
      [type |-> "Mouse", kind |-> "", mods |-> "NONE", code |-> "", ch |-> ""],
      [type |-> "Resize", kind |-> "", mods |-> "NONE", code |-> "", ch |-> ""],
      [type |-> "FocusGained", kind |-> "", mods |-> "NONE", code |-> "", ch |-> ""] }

Events == PressEvents \cup OtherEvents

\* char::is_numeric
is_numeric(c) == c = OtherNumeric \/ \E n \in 1..Len(AsciiDigits) : AsciiDigits[n] = c

\* char::to_digit(10)
to_digit(c) ==
    IF \E n \in 1..Len(AsciiDigits) : AsciiDigits[n] = c
    THEN Some((CHOOSE n \in 1..Len(AsciiDigits) : AsciiDigits[n] = c) - 1)
    ELSE None

\* The arm of the match in App::on_key_event that a key press takes (first match wins).
on_key_event(key) ==
    LET isChar(c) == key.code = "Char" /\ key.ch = c
    IN  IF key.code = "Esc" \/ isChar("q") THEN "quit"
        ELSE IF key.mods = "CONTROL" /\ (isChar("c") \/ isChar("C")) THEN "quit"
        ELSE IF isChar("j") THEN "next"
        ELSE IF isChar("k") THEN "previous"
        ELSE IF isChar("a") THEN "add_current_file"
        ELSE IF isChar("d") THEN "delete_selected_file"
        ELSE IF key.mods = "SHIFT" /\ isChar("J") THEN "move_down"
        ELSE IF key.mods = "SHIFT" /\ isChar("K") THEN "move_up"
        ELSE IF key.code = "Enter" THEN "enter"
        ELSE IF key.code = "Char" /\ is_numeric(key.ch) THEN "digit"
        ELSE "nothing"

\* App::handle_crossterm_events: only key presses reach on_key_event.
handle_crossterm_events(ev) ==
    IF ev.type = "Key" /\ ev.kind = "Press" THEN on_key_event(ev) ELSE "nothing"

\* The events that take a given arm of the dispatch.
EventsOf(arm) == {ev \in Events : handle_crossterm_events(ev) = arm}

\* ------------------------------------------------------------------ state

VARIABLES
    db_path_exists, \* whether the javelin.db file exists
    db_file,        \* the map the javelin.db file holds (EmptyMap when absent)
    pc,             \* per process: "none", "loop" (in App::run), "exited", "panicked"
    running,        \* App.running
    db,             \* App.db: the PickleDb handle's in-memory map
    list_state,     \* App.list_state.selected()
    files,          \* App.files
    project_key,    \* App.project_key
    zed_file,       \* env::var("ZED_FILE") of the process, as an Option
    out,            \* what the last step showed: message, editor launch, exit code
    history,        \* which history variable the behaviour records
    last,           \* history "steps": the operation of the last step, its process and
                    \* whether it called save_files; history "twice": also whether
                    \* the step before was the same operation of the same process
    closed,         \* history "closed": per project key, App.files when its last session
                    \* ended, until a later session changes the list
    offered         \* history "offered": the paths offered to add_current_file in TrackedKey

vars ==
    << db_path_exists, db_file, pc, running, db, list_state, files, project_key,
       zed_file, out, history, last, closed, offered >>

appVars == << pc, running, db, list_state, files, project_key, zed_file >>

storeVars == << db_path_exists, db_file >>

\* exit is None while the process has not exited, else Some(exit code).
Output(msg, n, count, launch, spawned, exit) ==
    [msg |-> msg, n |-> n, count |-> count, launch |-> launch, spawned |-> spawned,
     exit |-> exit]

Silent == Output("", 0, 0, None, FALSE, None)

\* The project whose offers the history variable offered follows.
TrackedKey == ProjectKey(<<"/", "p", "/", "q">>)

NoOffers == [valid |-> TRUE, seq |-> <<>>]

Lost == [valid |-> FALSE, seq |-> <<>>]

InitState(h) ==
    /\ db_path_exists = FALSE
    /\ db_file = EmptyMap
    /\ pc = [s \in Sessions |-> "none"]
    /\ running = [s \in Sessions |-> FALSE]
    /\ db = [s \in Sessions |-> EmptyMap]
    /\ list_state = [s \in Sessions |-> None]
    /\ files = [s \in Sessions |-> <<>>]
    /\ project_key = [s \in Sessions |-> <<>>]
    /\ zed_file = [s \in Sessions |-> None]
    /\ out = Silent
    /\ history = h
    /\ last = [op |-> "init", s |-> 0, saved |-> FALSE]
    /\ closed = EmptyMap
    /\ offered = NoOffers

Init == InitState("steps")

\* The history variable last after a step of operation op by process s
\* (0 for a one-shot command); saved says whether the step called save_files.
Record(op, s, saved) ==
    /\ last' = IF history = "steps" THEN [op |-> op, s |-> s, saved |-> saved]
               ELSE IF history = "twice"
               THEN [op |-> op, s |-> s, saved |-> saved,
                     twice |-> last.op = op /\ last.s = s]
               ELSE last
    /\ UNCHANGED history

\* No interactive session is in progress.
Idle == \A s \in Sessions : pc[s] = "none"

\* ---------------------------------------------------------------- session

\* NewApp creating a fresh handle even when the store file exists.
NewAppFresh(s, dir, zed) ==
    /\ LET key == ProjectKey(dir)
           loaded == load_files(EmptyMap, key)
       IN  /\ db' = [db EXCEPT ![s] = EmptyMap]
           /\ project_key' = [project_key EXCEPT ![s] = key]
           /\ files' = [files EXCEPT ![s] = loaded.files]
           /\ list_state' = [list_state EXCEPT ![s] = loaded.selected]
    /\ zed_file' = [zed_file EXCEPT ![s] = zed]
    /\ running' = [running EXCEPT ![s] = TRUE]
    /\ pc' = [pc EXCEPT ![s] = "loop"]
    /\ out' = Silent
    /\ Record("start", s, FALSE)
    /\ UNCHANGED << storeVars, closed, offered >>

\* App::new followed by the entry into App::run: open or create the handle,
\* derive the project key, load the list, set running.
NewApp(s, dir, zed) ==
    /\ LET map == IF db_path_exists THEN db_file ELSE EmptyMap
           key == ProjectKey(dir)
           loaded == load_files(map, key)
       IN  /\ db' = [db EXCEPT ![s] = map]
           /\ project_key' = [project_key EXCEPT ![s] = key]
           /\ files' = [files EXCEPT ![s] = loaded.files]
           /\ list_state' = [list_state EXCEPT ![s] = loaded.selected]
    /\ zed_file' = [zed_file EXCEPT ![s] = zed]
    /\ running' = [running EXCEPT ![s] = TRUE]
    /\ pc' = [pc EXCEPT ![s] = "loop"]
    /\ out' = Silent
    /\ Record("start", s, FALSE)
    /\ UNCHANGED << storeVars, closed, offered >>

\* A session started while no other process runs.
StartSession(s, dir, zed) ==
    /\ Idle
    /\ NewApp(s, dir, zed)

\* A session started whatever the other process does: nothing locks the store.
StartConcurrent(s, dir, zed) ==
    /\ pc[s] = "none"
    /\ NewApp(s, dir, zed)

\* save_files refusing to overwrite a store file that changed since the handle
\* read or wrote it.
save_files_detecting(s, fs) ==
    LET map == DbSet(db[s], project_key[s], fs)
    IN  /\ db' = [db EXCEPT ![s] = map]
        /\ IF db_path_exists => db_file = db[s]
           THEN db_file' = map /\ db_path_exists' = TRUE
           ELSE UNCHANGED storeVars

\* App::save_files with PickleDbDumpPolicy::AutoDump: set the key in the
\* handle's map and dump the whole map to the file.
save_files(s, fs) ==
    LET map == DbSet(db[s], project_key[s], fs)
    IN  /\ db' = [db EXCEPT ![s] = map]
        /\ db_file' = map
        /\ db_path_exists' = TRUE

\* The history of offers after the handler of arm ran in session s with outcome
\* oc: an add with a current file is an offer; any other handler that can move
\* the cursor or change the list ends the record unless it leaves the list empty.
Offer(s, arm, oc) ==
    IF history # "offered" \/ project_key[s] # TrackedKey THEN offered
    ELSE IF arm = "add_current_file"
    THEN (IF ~IsSome(zed_file[s]) THEN offered
          ELSE IF offered.valid /\ Len(offered.seq) < MaxOffered
          THEN [valid |-> TRUE, seq |-> Append(offered.seq, Unwrap(zed_file[s]))]
          ELSE Lost)
    ELSE IF arm \in {"delete_selected_file", "move_down", "move_up", "next", "previous"}
    THEN (IF oc.files = <<>> THEN NoOffers ELSE Lost)
    ELSE offered

\* The history of closed lists once session s has changed its list.
Reopened(s) == [k \in DOMAIN closed \ {project_key[s]} |-> closed[k]]

\* One iteration of the loop of App::run: the handler's outcome oc is applied;
\* quit says whether App::quit ran, output what the step showed.
Handle(s, arm, oc, quit, output) ==
    /\ files' = [files EXCEPT ![s] = oc.files]
    /\ list_state' = [list_state EXCEPT ![s] = oc.selected]
    /\ IF oc.save THEN save_files(s, oc.files) ELSE UNCHANGED << db, storeVars >>
    /\ running' = [running EXCEPT ![s] = IF quit /\ ~oc.panic THEN FALSE ELSE @]
    /\ pc' = [pc EXCEPT ![s] = IF oc.panic THEN "panicked"
                                ELSE IF quit THEN "exited" ELSE "loop"]
    /\ out' = output
    /\ Record(arm, s, oc.save)
    /\ offered' = Offer(s, arm, oc)
    /\ closed' = IF oc.files # files[s] THEN Reopened(s) ELSE closed
    /\ UNCHANGED << project_key, zed_file >>

Same(s) == Outcome(files[s], list_state[s], FALSE, FALSE)

\* Quit writing the list to the store before leaving the loop.
QuitSaving(s) ==
    /\ pc[s] = "loop"
    /\ \E ev \in EventsOf("quit") :
           Handle(s, "quit", Outcome(files[s], list_state[s], TRUE, FALSE), TRUE, Silent)

\* escape, q, control-C: App::quit
Quit(s) ==
    /\ pc[s] = "loop"
    /\ \E ev \in EventsOf("quit") : Handle(s, "quit", Same(s), TRUE, Silent)

\* j
SelectNext(s) ==
    /\ pc[s] = "loop"
    /\ \E ev \in EventsOf("next") :
           Handle(s, "next", next(files[s], list_state[s]), FALSE, Silent)

\* k
SelectPrevious(s) ==
    /\ pc[s] = "loop"
    /\ \E ev \in EventsOf("previous") :
           Handle(s, "previous", previous(files[s], list_state[s]), FALSE, Silent)

\* a
AddCurrentFile(s) ==
    /\ pc[s] = "loop"
    /\ \E ev \in EventsOf("add_current_file") :
           Handle(s, "add_current_file",
                  add_current_file(files[s], list_state[s], zed_file[s]), FALSE, Silent)

\* d
DeleteSelectedFile(s) ==
    /\ pc[s] = "loop"
    /\ \E ev \in EventsOf("delete_selected_file") :
           Handle(s, "delete_selected_file",
                  delete_selected_file(files[s], list_state[s]), FALSE, Silent)

\* shifted J
MoveDown(s) ==
    /\ pc[s] = "loop"
    /\ \E ev \in EventsOf("move_down") :
           Handle(s, "move_down", move_down(files[s], list_state[s]), FALSE, Silent)

\* shifted K
MoveUp(s) ==
    /\ pc[s] = "loop"
    /\ \E ev \in EventsOf("move_up") :
           Handle(s, "move_up", move_up(files[s], list_state[s]), FALSE, Silent)

\* Command::new("zed").arg(path).status(), result discarded: the editor may or
\* may not have been spawned.
Launch(path) ==
    {Output("", 0, 0, path, ok, None) : ok \in IF IsSome(path) THEN BOOLEAN ELSE {FALSE}}

\* Enter: open the selected entry and quit, if something is selected.
Enter(s) ==
    /\ pc[s] = "loop"
    /\ \E ev \in EventsOf("enter") :
           IF IsSome(list_state[s])
           THEN \E o \in Launch(open_file(files[s], Unwrap(list_state[s]))) :
                    Handle(s, "enter", Same(s), TRUE, o)
           ELSE Handle(s, "enter", Same(s), FALSE, Silent)

\* The numeric arm reading the digit as a 0-based index.
DigitKeyZeroBased(s, ev) ==
    LET d == to_digit(ev.ch)
    IN  IF ~IsSome(d)
        THEN Handle(s, "digit", Outcome(files[s], list_state[s], FALSE, TRUE), FALSE, Silent)
        ELSE IF Unwrap(d) < Len(files[s])
        THEN \E o \in Launch(open_file(files[s], Unwrap(d))) :
                 Handle(s, "digit", Same(s), TRUE, o)
        ELSE Handle(s, "digit", Same(s), FALSE, Silent)

\* The numeric arm for the key press ev: to_digit(10).unwrap() panics on a
\* numeric character that is no ASCII digit; a digit in 1..len opens that
\* entry and quits.
DigitKey(s, ev) ==
    LET d == to_digit(ev.ch)
    IN  IF ~IsSome(d)
        THEN Handle(s, "digit", Outcome(files[s], list_state[s], FALSE, TRUE), FALSE, Silent)
        ELSE IF Unwrap(d) > 0 /\ Unwrap(d) <= Len(files[s])
        THEN \E o \in Launch(open_file(files[s], Unwrap(d) - 1)) :
                 Handle(s, "digit", Same(s), TRUE, o)
        ELSE Handle(s, "digit", Same(s), FALSE, Silent)

\* A numeric character
Digit(s) ==
    /\ pc[s] = "loop"
    /\ \E ev \in EventsOf("digit") : DigitKey(s, ev)

\* Any other event
Nothing(s) ==
    /\ pc[s] = "loop"
    /\ \E ev \in EventsOf("nothing") : Handle(s, "nothing", Same(s), FALSE, Silent)

\* A mutating handler whose store write fails.  PickleDb::set writes a temporary
\* file and renames it; on failure it restores the handle's map and returns the
\* error, which save_files unwraps: the handler panics with the list changed
\* and before it touches the cursor.
SaveFails(s) ==
    /\ pc[s] = "loop"
    /\ \E oc \in { add_current_file(files[s], list_state[s], zed_file[s]),
                    delete_selected_file(files[s], list_state[s]),
                    move_down(files[s], list_state[s]),
                    move_up(files[s], list_state[s]) } :
           /\ oc.save
           /\ Handle(s, "save_failed", Outcome(oc.files, list_state[s], FALSE, TRUE),
                     FALSE, Silent)

\* App::run returns (or unwinds) and the App is dropped.  PickleDb's Drop dumps
\* the handle's map to the file under AutoDump; a build with panic = "abort"
\* drops nothing.
ExitSession(s) ==
    /\ pc[s] \in {"exited", "panicked"}
    /\ \E dump \in IF pc[s] = "exited" THEN {TRUE} ELSE BOOLEAN :
           IF dump
           THEN /\ db_file' = db[s]
                /\ db_path_exists' = TRUE
           ELSE UNCHANGED storeVars
    /\ closed' = IF history = "closed"
                 THEN [k \in DOMAIN closed \cup {project_key[s]} |->
                          IF k = project_key[s] THEN files[s] ELSE closed[k]]
                 ELSE closed
    /\ out' = Output("", 0, 0, None, FALSE, Some(IF pc[s] = "exited" THEN 0 ELSE 101))
    /\ Record("exit", s, FALSE)
    /\ pc' = [pc EXCEPT ![s] = "none"]
    /\ running' = [running EXCEPT ![s] = FALSE]
    /\ db' = [db EXCEPT ![s] = EmptyMap]
    /\ list_state' = [list_state EXCEPT ![s] = None]
    /\ files' = [files EXCEPT ![s] = <<>>]
    /\ project_key' = [project_key EXCEPT ![s] = <<>>]
    /\ zed_file' = [zed_file EXCEPT ![s] = None]
    /\ UNCHANGED offered

\* ------------------------------------------------------ one-shot commands

\* Subcommands "1".."9" call open_file_by_index with 0..8.
MaxIndex == 8

\* direct_outcome reporting the 0-based index in the not-found message.
direct_outcome_zero_based(dir, index, spawn) ==
    IF ~db_path_exists
    THEN Output("No files saved yet", 0, 0, None, FALSE, Some(0))
    ELSE LET key == ProjectKey(dir)
         IN  IF ~DbExists(db_file, key)
             THEN Output("No files saved for this project", 0, 0, None, FALSE, Some(0))
             ELSE LET fs == UnwrapOrDefault(DbGet(db_file, key))
                  IN  IF index >= Len(fs)
                      THEN Output("File {} not found (only {} files saved)",
                                  index, Len(fs), None, FALSE, Some(0))
                      ELSE Output("", 0, 0, Some(fs[index + 1]), spawn,
                                  Some(IF spawn THEN 0 ELSE 1))

\* The decisions of open_file_by_index(index) run from directory dir, in the
\* order the code takes them; spawn says whether the editor process could be
\* started (Command::status()? fails otherwise and main returns the error).
direct_outcome(dir, index, spawn) ==
    IF ~db_path_exists
    THEN Output("No files saved yet", 0, 0, None, FALSE, Some(0))
    ELSE LET key == ProjectKey(dir)
         IN  IF ~DbExists(db_file, key)
             THEN Output("No files saved for this project", 0, 0, None, FALSE, Some(0))
             ELSE LET fs == UnwrapOrDefault(DbGet(db_file, key))
                  IN  IF index >= Len(fs)
                      THEN Output("File {} not found (only {} files saved)",
                                  index + 1, Len(fs), None, FALSE, Some(0))
                      ELSE Output("", 0, 0, Some(fs[index + 1]), spawn,
                                  Some(IF spawn THEN 0 ELSE 1))

\* open_file_by_index opening the store the way App::new does: created when
\* absent, AutoDump, dumped when the handle is dropped.
open_file_by_index_autodump(dir, index, spawn) ==
    [out |-> direct_outcome(dir, index, spawn),
     exists |-> TRUE,
     file |-> db_file]

\* open_file_by_index: what it shows and the store file it leaves.  The handle
\* is loaded with PickleDbDumpPolicy::DumpUponRequest and never asked to dump,
\* and no file is created when none exists.
open_file_by_index(dir, index, spawn) ==
    [out |-> direct_outcome(dir, index, spawn),
     exists |-> db_path_exists,
     file |-> db_file]

\* main, Some(Commands::One) .. Some(Commands::Nine)
DirectInvocation(dir, index) ==
    /\ Idle
    /\ \E spawn \in BOOLEAN :
           LET r == open_file_by_index(dir, index, spawn)
           IN  /\ out' = r.out
               /\ db_path_exists' = r.exists
               /\ db_file' = r.file
    /\ Record("open", 0, FALSE)
    /\ UNCHANGED << appVars, closed, offered >>

\* Clean emptying the store file instead of removing it.
CleanTruncates ==
    /\ Idle
    /\ IF db_path_exists
       THEN /\ db_path_exists' = TRUE
            /\ db_file' = EmptyMap
            /\ out' = Output("Database deleted successfully", 0, 0, None, FALSE, Some(0))
       ELSE /\ UNCHANGED storeVars
            /\ out' = Output("Database does not exist", 0, 0, None, FALSE, Some(0))
    /\ Record("clean", 0, FALSE)
    /\ closed' = EmptyMap
    /\ offered' = NoOffers
    /\ UNCHANGED appVars

\* main, Some(Commands::Clean)
Clean ==
    /\ Idle
    /\ IF db_path_exists
       THEN /\ db_path_exists' = FALSE
            /\ db_file' = EmptyMap
            /\ out' = Output("Database deleted successfully", 0, 0, None, FALSE, Some(0))
       ELSE /\ UNCHANGED storeVars
            /\ out' = Output("Database does not exist", 0, 0, None, FALSE, Some(0))
    /\ Record("clean", 0, FALSE)
    /\ closed' = EmptyMap
    /\ offered' = NoOffers
    /\ UNCHANGED appVars

\* ---------------------------------------------------------- specification

\* The values of ZED_FILE a session may be started with.
ZedFiles == {None} \cup {Some(p) : p \in Paths}

SessionStep(s) ==
    \/ \E dir \in Dirs, zed \in ZedFiles : StartSession(s, dir, zed)
    \/ Quit(s)
    \/ SelectNext(s)
    \/ SelectPrevious(s)
    \/ AddCurrentFile(s)
    \/ DeleteSelectedFile(s)
    \/ MoveDown(s)
    \/ MoveUp(s)
    \/ Enter(s)
    \/ Digit(s)
    \/ Nothing(s)
    \/ ExitSession(s)

Next ==
    \/ \E s \in Foreground : SessionStep(s)
    \/ \E dir \in Dirs, index \in 0..MaxIndex : DirectInvocation(dir, index)
    \/ Clean

\* Sequential invocations, recording the operation of each step.
Spec == Init /\ [][Next]_vars

\* Sequential invocations, recording the list each session ended with.
SpecReopen == InitState("closed") /\ [][Next]_vars

\* Sequential invocations, recording the paths offered to add_current_file.
SpecOffers == InitState("offered") /\ [][Next]_vars

\* Sequential invocations, recording whether a step repeats the one before.
SpecTwice == InitState("twice") /\ [][Next]_vars

NextFail ==
    \/ Next
    \/ \E s \in Foreground : SaveFails(s)

\* Sequential invocations in which a write of the store file may fail.
SpecFail == Init /\ [][NextFail]_vars

\* The working directories of the project TrackedKey.
RaceDirs == {d \in Dirs : ProjectKey(d) = TrackedKey}

\* The values of ZED_FILE of two sessions that run at the same time.
RaceZedFiles == {None, Some("/a"), Some("/b")}

ConcurrentStep(s) ==
    \/ \E dir \in RaceDirs, zed \in RaceZedFiles : StartConcurrent(s, dir, zed)
    \/ Quit(s)
    \/ SelectNext(s)
    \/ SelectPrevious(s)
    \/ AddCurrentFile(s)
    \/ DeleteSelectedFile(s)
    \/ MoveDown(s)
    \/ MoveUp(s)
    \/ Enter(s)
    \/ Digit(s)
    \/ Nothing(s)
    \/ ExitSession(s)

NextRace == \E s \in Sessions : ConcurrentStep(s)

\* Two processes running sessions of one project at the same time, their
\* steps interleaved; no history is recorded.
SpecRace == InitState("none") /\ [][NextRace]_vars

\* ------------------------------------------------------------------ claims

\* C1: in every state of an interactive session the selection cursor is None
\* if and only if the file list is empty, and otherwise it is a valid index,
\* 0 <= cursor < length of the list.
CursorValid ==
    \A s \in Sessions :
        /\ list_state[s] = None <=> files[s] = <<>>
        /\ IsSome(list_state[s]) =>
               Unwrap(list_state[s]) >= 0 /\ Unwrap(list_state[s]) < Len(files[s])

\* C1 witness: one of three entries was deleted and the cursor is on the last
\* index of the two that remain.
CursorClampedAfterDelete ==
    /\ last = [op |-> "delete_selected_file", s |-> 1, saved |-> TRUE]
    /\ files[1] = <<"/a", "/b">>
    /\ list_state[1] = Some(1)

Range(seq) == {seq[i] : i \in 1..Len(seq)}

NoDuplicates(seq) == \A i, j \in 1..Len(seq) : seq[i] = seq[j] => i = j

\* The position of the first occurrence of x in seq.
FirstIndex(seq, x) == CHOOSE i \in 1..Len(seq) : seq[i] = x /\ \A j \in 1..(i - 1) : seq[j] # x

\* C2: starting from an empty project, after any sequence of add_current calls
\* (in one session or across sessions) the list contains no path twice, its
\* length is the number of distinct paths offered, the paths stand in the order
\* of their first offer, and the cursor is 0 once the list is non-empty.
AddsKeepFirstOffers ==
    \A s \in Sessions :
        (pc[s] # "none" /\ project_key[s] = TrackedKey /\ offered.valid) =>
            /\ NoDuplicates(files[s])
            /\ Len(files[s]) = Cardinality(Range(offered.seq))
            /\ Range(files[s]) = Range(offered.seq)
            /\ \A i, j \in 1..Len(files[s]) :
                   i < j => FirstIndex(offered.seq, files[s][i]) < FirstIndex(offered.seq, files[s][j])
            /\ list_state[s] = IF files[s] = <<>> THEN None ELSE Some(0)

\* C2 witness: /a, /b, /a were offered and the list is [/a, /b] with cursor 0.
OfferedABA ==
    /\ offered = [valid |-> TRUE, seq |-> <<"/a", "/b", "/a">>]
    /\ pc[1] = "loop"
    /\ files[1] = <<"/a", "/b">>
    /\ list_state[1] = Some(0)

\* C3: persistence round trip.  After any sequence of mutating operations in a
\* session, a new session started from the same working directory loads a list
\* equal, in order and in elements, to the in-memory list of the session that
\* ended: a session that has not yet changed its list holds the list its
\* project's last session ended with.
ReopenLoadsClosedList ==
    \A s \in Sessions :
        (pc[s] # "none" /\ project_key[s] \in DOMAIN closed) =>
            files[s] = closed[project_key[s]]

\* C3 witness: a session ended with [/c, /a, /b] (adds and moves) and the next
\* session of the project has loaded that list.
ReopenedWithThree ==
    /\ pc[1] = "loop"
    /\ project_key[1] = TrackedKey
    /\ TrackedKey \in DOMAIN closed
    /\ closed[TrackedKey] = <<"/c", "/a", "/b">>
    /\ files[1] = <<"/c", "/a", "/b">>

\* C4: the two entry points agree.  After a session run from directory D ended
\* with in-memory list L, a direct invocation with subcommand N from D launches
\* exactly L[N-1] whenever N <= length of L (index = N - 1 is 0-based).
DirectLaunchesClosedEntry ==
    [][ \A dir \in Dirs, index \in 0..MaxIndex :
            ( /\ ProjectKey(dir) \in DOMAIN closed
              /\ index < Len(closed[ProjectKey(dir)])
              /\ DirectInvocation(dir, index) )
            => out'.launch = Some(closed[ProjectKey(dir)][index + 1]) ]_vars

\* C4 witness: the only project's session ended with [/c, /a, /b] and a direct
\* invocation launched its third entry.
DirectLaunchedThird ==
    /\ Idle
    /\ DOMAIN db_file = {TrackedKey}
    /\ TrackedKey \in DOMAIN closed
    /\ closed[TrackedKey] = <<"/c", "/a", "/b">>
    /\ out.launch = Some("/b")

\* The order in which a direct invocation from dir with 0-based index decides,
\* as a relation between the store before the step and the output after it.
DirectDecision(dir, index) ==
    LET key == ProjectKey(dir)
        fs == UnwrapOrDefault(Deserialize(db_file[key]))
    IN  /\ ~db_path_exists =>
               out'.msg = "No files saved yet" /\ out'.launch = None
        /\ (db_path_exists /\ key \notin DOMAIN db_file) =>
               out'.msg = "No files saved for this project" /\ out'.launch = None
        /\ (db_path_exists /\ key \in DOMAIN db_file /\ index >= Len(fs)) =>
               /\ out'.msg = "File {} not found (only {} files saved)"
               /\ out'.n = index + 1
               /\ out'.count = Len(fs)
               /\ out'.launch = None
        /\ (db_path_exists /\ key \in DOMAIN db_file /\ index < Len(fs)) =>
               out'.msg = "" /\ out'.launch = Some(fs[index + 1])

\* C5 as stated: a direct invocation decides in the order no store file, no
\* list for the key, index out of range, launch, and always exits successfully.
DirectAlwaysExitsZero ==
    [][ \A dir \in Dirs, index \in 0..MaxIndex :
            DirectInvocation(dir, index) =>
                DirectDecision(dir, index) /\ out'.exit = Some(0) ]_vars

\* C5 as amended: the same order of decisions; the invocation exits
\* successfully in the three reporting cases and, in the launch case, exactly
\* when the editor process could be started (exit code 1 otherwise).
DirectExitsZeroUnlessSpawnFails ==
    [][ \A dir \in Dirs, index \in 0..MaxIndex :
            DirectInvocation(dir, index) =>
                /\ DirectDecision(dir, index)
                /\ out'.exit = IF out'.launch = None \/ out'.spawned THEN Some(0) ELSE Some(1) ]_vars

\* C5 witness: a direct invocation resolved an entry, the editor could not be
\* started and the invocation failed.
DirectSpawnFailed ==
    /\ last.op = "open"
    /\ out.launch = Some("/b")
    /\ ~out.spawned
    /\ out.exit = Some(1)

\* C6: the direct invocation path never mutates the store: the store file's
\* existence and the list stored under every project key are the same after
\* the invocation as before it.
DirectNeverMutates ==
    [][ last'.op = "open" => db_path_exists' = db_path_exists /\ db_file' = db_file ]_vars

\* C6 witness: a direct invocation launched the second of two stored entries.
DirectLaunchedStored ==
    /\ last.op = "open"
    /\ db_path_exists
    /\ TrackedKey \in DOMAIN db_file
    /\ db_file[TrackedKey] = Serialize(<<"/a", "/b">>)
    /\ out.launch = Some("/b")

\* C7: clean removes the whole store.  Without a store file it reports "does
\* not exist" and changes nothing; with one it deletes the file, so that no
\* project key has a stored list, a following direct invocation reports that
\* nothing is saved and a following session starts with an empty list and
\* cursor None; it exits successfully in both cases.
CleanRemovesStore ==
    [][ /\ last'.op = "clean" =>
               /\ out'.exit = Some(0)
               /\ ~db_path_exists' /\ DOMAIN db_file' = {}
               /\ out'.msg = IF db_path_exists THEN "Database deleted successfully"
                             ELSE "Database does not exist"
               /\ ~db_path_exists => UNCHANGED << storeVars, appVars >>
        /\ (last.op = "clean" /\ last'.op = "open") =>
               out'.msg = "No files saved yet" /\ out'.launch = None
        /\ (last.op = "clean" /\ last'.op = "start") =>
               \A s \in Sessions :
                   pc'[s] = "loop" => files'[s] = <<>> /\ list_state'[s] = None ]_vars

\* C7 witness: clean deleted a store that held a list.
CleanDeletedStore ==
    /\ last.op = "clean"
    /\ out.msg = "Database deleted successfully"
    /\ ~db_path_exists

\* The step was taken by the handler of arm in session s.
Handled(arm, s) == last'.op = arm /\ last'.s = s

\* C8: delete_selected with cursor c on a list of length n removes exactly the
\* entry at index c and keeps the order of the others; afterwards the cursor
\* is None if n = 1, n - 2 if c was the last index, and c otherwise.  With
\* cursor None it changes nothing.
DeleteRemovesSelected ==
    [][ \A s \in Sessions :
            Handled("delete_selected_file", s) =>
                IF list_state[s] = None
                THEN /\ files'[s] = files[s]
                     /\ list_state'[s] = None
                     /\ UNCHANGED storeVars
                ELSE LET c == Unwrap(list_state[s])
                         n == Len(files[s])
                     IN  /\ Len(files'[s]) = n - 1
                         /\ \A j \in 0..(n - 2) :
                                files'[s][j + 1] = IF j < c THEN files[s][j + 1]
                                                   ELSE files[s][j + 2]
                         /\ list_state'[s] = IF n = 1 THEN None
                                             ELSE IF c = n - 1 THEN Some(n - 2)
                                             ELSE Some(c) ]_vars

\* C8 witness: the first of three entries was deleted (the only deletion that
\* leaves two entries and cursor 0); the cursor stays 0, now on the entry that
\* was at index 1.
DeletedFirstOfThree ==
    /\ last = [op |-> "delete_selected_file", s |-> 1, saved |-> TRUE]
    /\ files[1] = <<"/a", "/c">>
    /\ list_state[1] = Some(0)

\* C9: a move away from a boundary swaps the entry at the cursor with its
\* neighbour in the direction of the move (up = index - 1, down = index + 1),
\* leaves every other entry in place and moves the cursor with the entry.
MoveSwapsWithNeighbour ==
    [][ \A s \in Sessions :
            LET c == Unwrap(list_state[s])
                n == Len(files[s])
                Swapped(to) ==
                    /\ Len(files'[s]) = n
                    /\ files'[s][to + 1] = files[s][c + 1]
                    /\ files'[s][c + 1] = files[s][to + 1]
                    /\ \A j \in 0..(n - 1) \ {c, to} : files'[s][j + 1] = files[s][j + 1]
                    /\ list_state'[s] = Some(to)
            IN  /\ (Handled("move_up", s) /\ IsSome(list_state[s]) /\ c > 0) =>
                       Swapped(c - 1)
                /\ (Handled("move_down", s) /\ IsSome(list_state[s]) /\ c < n - 1) =>
                       Swapped(c + 1) ]_vars

\* C9 witness: [/a, /b, /c] with the cursor on /c after two moves up.
MovedToFront ==
    /\ last = [op |-> "move_up", s |-> 1, saved |-> TRUE]
    /\ files[1] = <<"/c", "/a", "/b">>
    /\ list_state[1] = Some(0)

\* C10: move up with the cursor at index 0 and move down with the cursor at
\* the last index change neither the list, nor the cursor, nor the store.
MoveAtBoundaryNoOp ==
    [][ \A s \in Sessions :
            ( /\ IsSome(list_state[s])
              /\ \/ Handled("move_up", s) /\ Unwrap(list_state[s]) = 0
                 \/ Handled("move_down", s) /\ Unwrap(list_state[s]) = Len(files[s]) - 1 )
            => UNCHANGED << files, list_state, db, storeVars >> ]_vars

\* C10 witness: a move down that saved nothing, with the cursor on the last of
\* three entries.
MoveDownAtLast ==
    /\ last = [op |-> "move_down", s |-> 1, saved |-> FALSE]
    /\ Len(files[1]) = 3
    /\ list_state[1] = Some(2)

\* The cursor after k calls of App::next on the list fs, starting from sel.
RECURSIVE NextTimes(_, _, _)
NextTimes(fs, sel, k) ==
    IF k = 0 THEN sel ELSE NextTimes(fs, next(fs, sel).selected, k - 1)

\* C11: on a non-empty list of length n, select_next moves the cursor from c
\* to (c + 1) mod n and select_previous from c to (c - 1) mod n, so n calls of
\* select_next from any index return to that index; on an empty list both
\* change nothing.  Neither touches the list or the store.
SelectWrapsAround ==
    [][ \A s \in Sessions :
            LET n == Len(files[s])
                c == Unwrap(list_state[s])
            IN  /\ (Handled("next", s) \/ Handled("previous", s)) =>
                       UNCHANGED << files, db, storeVars >> /\ pc'[s] = "loop"
                /\ (Handled("next", s) /\ n > 0) => list_state'[s] = Some((c + 1) % n)
                /\ (Handled("previous", s) /\ n > 0) =>
                       list_state'[s] = Some((c + n - 1) % n)
                /\ ((Handled("next", s) \/ Handled("previous", s)) /\ n = 0) =>
                       list_state'[s] = list_state[s]
                /\ pc[s] = "loop" =>
                       \A c0 \in 0..(n - 1) : NextTimes(files[s], Some(c0), n) = Some(c0) ]_vars

\* C11 witness: select_next on three entries left the cursor on index 0, which
\* it reaches only from the last index.
NextWrappedToFirst ==
    /\ last = [op |-> "next", s |-> 1, saved |-> FALSE]
    /\ Len(files[1]) = 3
    /\ list_state[1] = Some(0)

\* C12: add_current is idempotent.  A second add_current of the same path
\* right after the first changes neither the list, nor the cursor, nor the
\* store; and for every list and cursor a session holds and every path p,
\* add_current(p) applied to the outcome of add_current(p) gives that outcome
\* again without a write.
AddTwiceIsAddOnce ==
    [][ \A s \in Sessions :
            /\ (last.op = "add_current_file" /\ last.s = s /\ Handled("add_current_file", s)) =>
                   UNCHANGED << files, list_state, db, storeVars >>
            /\ pc[s] = "loop" =>
                   \A p \in Paths :
                       LET once == add_current_file(files[s], list_state[s], Some(p))
                           again == add_current_file(once.files, once.selected, Some(p))
                       IN  /\ again.files = once.files
                           /\ again.selected = once.selected
                           /\ ~again.save ]_vars

\* C12 witness: /c was added to [/a, /b] and add_current was called again
\* right away; the list is [/a, /b, /c], stored as such, the cursor where it was.
AddedTwice ==
    /\ last = [op |-> "add_current_file", s |-> 1, saved |-> FALSE, twice |-> TRUE]
    /\ zed_file[1] = Some("/c")
    /\ files[1] = <<"/a", "/b", "/c">>
    /\ list_state[1] = Some(0)
    /\ db_file[project_key[1]] = Serialize(<<"/a", "/b", "/c">>)

\* The session of process s is in its loop.
Running(s) == pc[s] = "loop"

\* The session of process s has left its loop and the process has not yet ended.
Terminated(s) == pc[s] \in {"exited", "panicked"}

\* What C13 says of every step, but for the store after termination: a session
\* is Running or Terminated; a quit key takes it from Running to Terminated
\* and changes neither list, cursor nor store; from Terminated no handler runs
\* again, the only step left being the end of the process.
QuitAndAbsorb(s) ==
    /\ pc[s] # "none" => (Running(s) \/ Terminated(s))
    /\ Running(s) => running[s]
    /\ pc[s] = "exited" => ~running[s]
    /\ Handled("quit", s) =>
           /\ Running(s) /\ pc'[s] = "exited"
           /\ UNCHANGED << files, list_state, db, storeVars >>
    /\ Terminated(s) => last'.op = "exit" /\ last'.s = s /\ pc'[s] = "none"

\* C13 as stated: ... and once the session is Terminated the store never
\* changes again.
TerminatedFreezesStore ==
    [][ \A s \in Sessions : QuitAndAbsorb(s) /\ (Terminated(s) => UNCHANGED storeVars) ]_vars

\* C13 as amended: ... and once the session is Terminated the list stored
\* under every project key never changes again; the end of the process may
\* still create the store file, holding no list, when none existed.
TerminatedFreezesStoredLists ==
    [][ \A s \in Sessions :
            /\ QuitAndAbsorb(s)
            /\ Terminated(s) =>
                   /\ db_file' = db_file
                   /\ db_path_exists => db_path_exists' ]_vars

\* C13 witness: a quit key ended a session holding two entries.
QuitEndedSession ==
    /\ last = [op |-> "quit", s |-> 1, saved |-> FALSE]
    /\ pc[1] = "exited"
    /\ ~running[1]
    /\ files[1] = <<"/a", "/b">>
    /\ list_state[1] = Some(1)

\* C14: in a session the editor is launched in exactly two cases: Enter with a
\* selection launches the entry at the cursor, and a digit d in 1..9 with
\* d <= length launches the entry at index d - 1 whatever the cursor is.  Each
\* launch is followed by Terminated whether or not the editor was spawned;
\* Enter on an empty list and a digit beyond the length launch nothing and
\* leave the session Running with list, cursor and store unchanged.
LaunchOnEnterOrDigit ==
    [][ \A s \in Sessions :
            LET n == Len(files[s])
                Stays ==
                    /\ pc'[s] = "loop" /\ running'[s]
                    /\ out'.launch = None
                    /\ UNCHANGED << files, list_state, db, storeVars >>
                Launches(path) ==
                    /\ out'.launch = Some(path)
                    /\ pc'[s] = "exited" /\ ~running'[s]
                    /\ UNCHANGED << files, list_state, db, storeVars >>
            IN  /\ Handled("enter", s) =>
                       IF IsSome(list_state[s])
                       THEN Launches(files[s][Unwrap(list_state[s]) + 1])
                       ELSE n = 0 /\ Stays
                /\ \A d \in 1..9 :
                       (pc[s] = "loop" /\ DigitKey(s, Press("NONE", AsciiDigits[d + 1]))) =>
                           IF d <= n THEN Launches(files[s][d]) ELSE Stays
                /\ (last'.s = s /\ out'.launch # None) =>
                       \/ Handled("enter", s) /\ IsSome(list_state[s])
                       \/ /\ Handled("digit", s)
                          /\ \E d \in 1..9 :
                                 d <= n /\ DigitKey(s, Press("NONE", AsciiDigits[d + 1])) ]_vars

\* C14 witness: with the cursor on the first of two entries a digit launched
\* the second; the editor could not be spawned and the session is Terminated.
DigitLaunchedSecond ==
    /\ last = [op |-> "digit", s |-> 1, saved |-> FALSE]
    /\ files[1] = <<"/a", "/b">>
    /\ list_state[1] = Some(0)
    /\ out.launch = Some("/b")
    /\ ~out.spawned
    /\ pc[1] = "exited"

\* The key presses of the numeric arm that match no row of the dispatch table:
\* the digit 0 and a numeric character that is no ASCII digit.
UnlistedNumeric == {Press("NONE", "0"), Press("NONE", OtherNumeric)}

\* C15: every input event that matches no row of the dispatch table (a key
\* release or repeat, a mouse or resize event, a press of any other key, the
\* digit 0 and any other unlisted character included) leaves the session
\* Running and changes neither the list, nor the cursor, nor the store; it
\* never aborts the session.
UnlistedEventsChangeNothing ==
    [][ \A s \in Sessions :
            ( \/ Handled("nothing", s)
              \/ pc[s] = "loop" /\ \E ev \in UnlistedNumeric : DigitKey(s, ev) )
            => /\ pc'[s] = "loop" /\ running'[s]
               /\ UNCHANGED << files, list_state, db, storeVars >> ]_vars

\* Memory and store agree for a list mem kept under key in the map file: the
\* store holds the list, or holds no list for the key and mem is empty.
Synchronized(file, key, mem) ==
    IF DbExists(file, key) THEN DbGet(file, key) = Some(mem) ELSE mem = <<>>

\* C16: when the store write of a mutating operation fails, the operation's
\* effect on the in-memory list is kept and the store is left as it was, and
\* the next write of the store by the session stores the full in-memory list,
\* which ends the divergence.
FailedWriteHealsOnNextWrite ==
    [][ \A s \in Sessions :
            /\ Handled("save_failed", s) =>
                   files'[s] # files[s] /\ UNCHANGED storeVars
            /\ (pc[s] # "none" /\ last'.s = s /\ storeVars' # storeVars) =>
                   Synchronized(db_file', project_key[s],
                                IF last'.op = "exit" THEN files[s] ELSE files'[s]) ]_vars

\* C17: two sessions of one project key running at the same time: the last
\* writer wins, with no detection and no merge.  Every mutating operation of a
\* session writes, and after the write the list stored for the key is that
\* session's in-memory list, whatever the other session stored or holds; the
\* other session's memory is not touched.  The write of the handle at the end
\* of a process likewise leaves the store agreeing with that process's list.
LastWriterWins ==
    [][ \A s \in Sessions :
            /\ (pc[s] = "loop" /\ files'[s] # files[s]) =>
                   /\ db_path_exists'
                   /\ DbGet(db_file', project_key[s]) = Some(files'[s])
                   /\ \A t \in Sessions \ {s} :
                          files'[t] = files[t] /\ db'[t] = db[t] /\ pc'[t] = pc[t]
            /\ (Terminated(s) /\ pc'[s] = "none" /\ storeVars' # storeVars) =>
                   Synchronized(db_file', project_key[s], files[s]) ]_vars

\* C17 witness: both sessions run in the same project; session 2 holds [/b],
\* session 1 holds [/a] and wrote last: the store holds [/a] and /b is lost.
SecondWriterLost ==
    /\ pc[1] = "loop" /\ pc[2] = "loop"
    /\ project_key[1] = project_key[2]
    /\ files[1] = <<"/a">>
    /\ files[2] = <<"/b">>
    /\ db_file[project_key[1]] = Serialize(<<"/a">>)

\* C18: between any two operations of a session (no write failing), memory
\* and store are synchronized: the store holds a list for the project key
\* equal to the in-memory list, or holds none and the in-memory list is empty.
\* A key enters the store only by a successful add of a session of that key,
\* and a delete that empties the list leaves the key present with an empty list.
MemoryAndStoreSynchronized ==
    [][ /\ \A s \in Sessions :
               /\ pc[s] # "none" => Synchronized(db_file, project_key[s], files[s])
               /\ pc'[s] # "none" => Synchronized(db_file', project_key'[s], files'[s])
               /\ (Handled("delete_selected_file", s) /\ files[s] # <<>>) =>
                      /\ DbExists(db_file', project_key[s])
                      /\ db_file'[project_key[s]] = Serialize(files'[s])
        /\ \A k \in Keys :
               (~DbExists(db_file, k) /\ DbExists(db_file', k)) =>
                   \E s \in Sessions :
                       /\ last' = [op |-> "add_current_file", s |-> s, saved |-> TRUE]
                       /\ project_key[s] = k
                       /\ db_file'[k] = Serialize(<<Unwrap(zed_file[s])>>) ]_vars

\* C18 witness: the only entry was deleted; the key is still in the store,
\* with an empty list.
EmptiedListKeepsKey ==
    /\ last = [op |-> "delete_selected_file", s |-> 1, saved |-> TRUE]
    /\ files[1] = <<>>
    /\ db_path_exists
    /\ DbExists(db_file, project_key[1])
    /\ db_file[project_key[1]] = Serialize(<<>>)

\* C19: under sequential invocations every step of a session of project key K
\* (its start, each add, delete, move and select, and its end) leaves the list
\* stored under every other project key as it was.
OtherKeysUntouched ==
    [][ \A s \in Sessions :
            (last'.s = s /\ (pc[s] # "none" \/ pc'[s] # "none")) =>
                LET own == IF pc[s] = "none" THEN project_key'[s] ELSE project_key[s]
                IN  \A k \in Keys \ {own} :
                        /\ DbExists(db_file', k) <=> DbExists(db_file, k)
                        /\ DbExists(db_file, k) => db_file'[k] = db_file[k] ]_vars

\* C19 witness: a session of /r has just stored its list while the store
\* holds two entries for another project.
SavedBesideOtherProject ==
    /\ last = [op |-> "add_current_file", s |-> 1, saved |-> TRUE]
    /\ project_key[1] = ProjectKey(<<"/", "r">>)
    /\ files[1] = <<"/c">>
    /\ DbExists(db_file, TrackedKey)
    /\ db_file[TrackedKey] = Serialize(<<"/a", "/b">>)
    /\ db_file[project_key[1]] = Serialize(<<"/c">>)

\* C20: a session whose loaded list holds no path twice keeps it so: after any
\* interleaving of add, delete, move and select operations neither the
\* in-memory list nor any list in the store holds a path twice.
ListsStayDuplicateFree ==
    /\ \A s \in Sessions : NoDuplicates(files[s])
    /\ \A k \in DOMAIN db_file : NoDuplicates(UnwrapOrDefault(DbGet(db_file, k)))
    /\ \A s \in Sessions :
           \A k \in DOMAIN db[s] : NoDuplicates(UnwrapOrDefault(DbGet(db[s], k)))

\* C20 witness: on a list of three that moves have reordered, an add of a path
\* that is in the list, but not under the cursor, was refused.
AddRefusedAfterMoves ==
    /\ last = [op |-> "add_current_file", s |-> 1, saved |-> FALSE]
    /\ zed_file[1] = Some("/a")
    /\ files[1] = <<"/b", "/c", "/a">>
    /\ list_state[1] = Some(1)
    /\ db_file[project_key[1]] = Serialize(files[1])

====
